---------------------------- MODULE Spec2Model ----------------------------
(***************************************************************************)
(* Cycle-level model of the litescope analyzer core (litescope/core.py):   *)
(* FrontendTrigger, FrontendSubSampler, the width converter instantiated   *)
(* by AnalyzerFrontend, and AnalyzerStorage.                               *)
(*                                                                         *)
(* The design is synchronous hardware.  One action of the model is one     *)
(* clock cycle of one module: the combinational assignments (self.comb)    *)
(* are the LET definitions of the action, the registers (self.sync, FSM    *)
(* state, FIFO pointers) are the primed variables.  Host register accesses *)
(* (CSR writes) are the inputs of a cycle; the CSR bus performs at most    *)
(* one access per cycle, so each cycle action carries exactly one access.  *)
(*                                                                         *)
(* The stream/FIFO primitives the core instantiates (stream.SyncFIFO with  *)
(* buffered=True, stream.AsyncFIFO, PulseSynchronizer, StrideConverter)    *)
(* are modelled at register level after the migen/litex gateware they      *)
(* elaborate to; each such definition names the instantiating line.        *)
(***************************************************************************)
EXTENDS Integers, Sequences, FiniteSets, TLC

(***************************************************************************)
(* Bounds of the model.                                                    *)
(***************************************************************************)
\* largest capture-buffer capacity (depth // cd_ratio) explored
MaxCap == 2
\* number of samples the upstream offers to the storage in one behaviour
MaxSamples == 5
\* number of (mask, value) updates the host commits in one behaviour
MaxWrites == 1
\* largest decimation factor explored
MaxFactor == 3
\* largest cd_ratio explored
MaxRatio == 3
\* number of narrow samples offered to the width converter in one behaviour
MaxNarrow == 7
\* number of flush requests the host issues to the trigger in one behaviour
MaxFlushes == 2
\* largest capacity and latest position of the hit sample explored for the
\* capture under a continuous stream
MaxLiveCap == 4
MaxHitAt == 7

\* FrontendTrigger(dw, depth=16): depth of the update queue
TrigDepth == 16

\* sample values and trigger conditions explored (dw = 2)
Samples == {0, 3}
Masks == {0, 1}
Values == {0, 1}

VARIABLES
    \* ---- AnalyzerStorage ----
    mode,       \* which environment drives the storage: "free", "e2e" or
                \*   "live" ("off": none)
    cap,        \* depth // cd_ratio, fixed at construction
    fsm,        \* FSM state: "IDLE", "WAIT", "RUN"
    length,     \* self.length.storage
    offset,     \* self.offset.storage
    storage,    \* mem: the FIFO's memory, address -> data
    produce,    \* mem: write pointer
    consume,    \* mem: read pointer
    flevel,     \* mem: level of the inner (unbuffered) FIFO
    readable,   \* mem: output register valid (mem.source.valid)
    dout,       \* mem: output register data (mem.source.data)
    sink,       \* the sample the upstream presents: [valid, data, hit]
    nextIdx,    \* index of the next sample the upstream will present
    total,      \* number of samples the upstream has to present; in the
                \*   "live" environment the stream is endless and this is
                \*   the index of the one sample that carries a hit
    content,    \* history: the samples pushed and not yet popped, oldest first
    obs,        \* history: what happened in the last cycle
    pc,         \* e2e environment: position in the host's script
    steady,     \* e2e environment: a sample was offered in every capture cycle
    readout     \* e2e environment: the words the host has read out, in order

VARIABLES
    \* ---- FrontendTrigger ----
    mem_mask,      \* self.mem_mask.storage (control domain)
    mem_value,     \* self.mem_value.storage (control domain)
    tmem,          \* update queue: the entries written to its memory, in order
    t_consume,     \* update queue: read pointer (sample domain)
    t_produce_r,   \* update queue: write pointer as synchronised into the
                   \*   sample domain, <<first stage, second stage>>
    t_dout,        \* update queue: registered read data (mem.source.mask/value)
    toggle_i,      \* flush synchroniser: toggle in the control domain
    toggle_o,      \* flush synchroniser: <<first stage, second stage>>
    toggle_o_r,    \* flush synchroniser: previous value of the second stage
    flush_count,   \* the flush countdown
    sinceFlush,    \* history: sample-domain cycles since the last flush pulse
                   \*   (0: no pulse yet; saturates at TrigDepth + 1)
    flushReq,      \* history: mem_flush requests issued in the control domain
    flushPulses,   \* history: cycles in which flush.o was 1 in the sample domain
    tobs           \* history: what happened in the last sample-domain cycle

tvars == <<mem_mask, mem_value, tmem, t_consume, t_produce_r,
           t_dout, toggle_i, toggle_o, toggle_o_r, flush_count, sinceFlush,
           flushReq, flushPulses, tobs>>

VARIABLES
    \* ---- FrontendSubSampler ----
    ss_value,      \* value: the decimation factor, as synchronised from the CSR
    counter,       \* the 16-bit counter
    ss_gap,        \* history: inputs accepted since the last forwarded one
                   \*   (saturates at ss_value + 1)
    ss_fwd,        \* history: inputs forwarded so far (saturates at 2)
    ss_obs         \* history: what happened in the last cycle

ssvars == <<ss_value, counter, ss_gap, ss_fwd, ss_obs>>

VARIABLES
    \* ---- width converter (AnalyzerFrontend.converter) ----
    cd_ratio,      \* narrow samples per wide word, fixed at construction
    demux,         \* index of the slot the next narrow sample is loaded into
    strobe_all,    \* the wide word is complete (source.valid)
    cv_word,       \* the wide word's slots: slot -> [data, hit]
    cv_next,       \* index of the next narrow sample the upstream presents
    cv_in,         \* history: the narrow samples accepted, in order
    cv_out         \* history: the wide words delivered, in order

cvvars == <<cd_ratio, demux, strobe_all, cv_word, cv_next, cv_in, cv_out>>

svars == <<mode, cap, fsm, length, offset, storage, produce, consume,
           flevel, readable, dout, sink, nextIdx, total, content, obs,
           pc, steady, readout>>

vars == <<svars, tvars, ssvars, cvvars>>

(***************************************************************************)
(* Helpers                                                                 *)
(***************************************************************************)
B2N(b) == IF b THEN 1 ELSE 0

RECURSIVE Pow2(_)
Pow2(n) == IF n = 0 THEN 1 ELSE 2 * Pow2(n - 1)

\* migen bits_for(n): number of bits needed to represent n (at least 1)
RECURSIVE bits_for(_)
bits_for(n) == IF n < 2 THEN 1 ELSE 1 + bits_for(n \div 2)

\* genlib.fifo._inc: pointer increment with wrap at the memory depth
_inc(p, d) == IF p = d - 1 THEN 0 ELSE p + 1


(***************************************************************************)
(* FrontendTrigger                                                         *)
(***************************************************************************)
\* bitwise AND of two naturals (self.sink.data & mem.source.mask)
RECURSIVE BitAnd(_, _)
BitAnd(a, b) ==
    IF a = 0 \/ b = 0 THEN 0
    ELSE 2 * BitAnd(a \div 2, b \div 2) + (IF a % 2 = 1 /\ b % 2 = 1 THEN 1 ELSE 0)

\* the memory word the queue's read port addresses; unwritten words are 0
NoCond == [mask |-> 0, value |-> 0]
TMemAt(i) == IF i < Len(tmem) THEN tmem[i + 1] ELSE NoCond

\* mem.source.valid: the queue's read side presents an entry
mem_source_valid == t_consume # t_produce_r[2]

\* mem.sink.ready: the queue's write side has room.  (The write side sees
\* the read pointer through a synchroniser, which can only make the queue
\* look fuller; the model commits at most MaxWrites < depth entries, so the
\* queue is never full either way.)
t_writable == Len(tmem) - t_consume < TrigDepth

\* hit.eq((self.sink.data & mem.source.mask) == mem.source.value)
hit(data) == BitAnd(data, t_dout.mask) = t_dout.value

\* mem.source.ready.eq(hit | (flush_count != 0))
MemSourceReady(data) == hit(data) \/ flush_count # 0

\* self.source.hit.eq(~mem.source.valid), which overrides the hit field
\* copied by self.sink.connect(self.source)
SourceHitIsMatch(data) == B2N(hit(data))
SourceHitAlways(data) == 1
SourceHit(data) == B2N(~mem_source_valid)

\* flush.o: the synchroniser's output pulse
flush_o == toggle_o[2] # toggle_o_r

\* flush_count = Signal(max=depth): the register wraps at 2^bits
FlushCountMod == Pow2(bits_for(TrigDepth - 1))

\* If(flush.o, flush_count.eq(depth - 1)).Else(flush_count.eq(flush_count - 1))
FlushCountNext ==
    IF flush_o THEN TrigDepth - 1 ELSE (flush_count - 1) % FlushCountMod

NoTObs == [valid |-> FALSE, data |-> 0, headValid |-> FALSE, mask |-> 0,
           value |-> 0, outValid |-> FALSE, outData |-> 0, outHit |-> 1,
           fc |-> 0, since |-> 0, pop |-> FALSE, n |-> 0]

\* the state after construction
TriggerReset ==
    /\ mem_mask = 0
    /\ mem_value = 0
    /\ tmem = <<>>
    /\ t_consume = 0
    /\ t_produce_r = <<0, 0>>
    /\ t_dout = NoCond
    /\ toggle_i = FALSE
    /\ toggle_o = <<FALSE, FALSE>>
    /\ toggle_o_r = FALSE
    /\ flush_count = 0
    /\ sinceFlush = 0
    /\ flushReq = 0
    /\ flushPulses = 0
    /\ tobs = NoTObs

(***************************************************************************)
(* One cycle of the control domain (csr_sys).  we is self.mem_write.re,    *)
(* fl is self.mem_flush.re.                                                *)
(***************************************************************************)
CsrTick(we, fl) ==
    /\ tmem' = IF we /\ t_writable
                 THEN Append(tmem, [mask |-> mem_mask, value |-> mem_value])
                 ELSE tmem
    /\ toggle_i' = IF fl THEN ~toggle_i ELSE toggle_i
    /\ flushReq' = IF fl THEN flushReq + 1 ELSE flushReq
    /\ UNCHANGED <<t_consume, t_produce_r, t_dout, toggle_o, toggle_o_r,
                   flush_count, sinceFlush, flushPulses, tobs>>
    /\ UNCHANGED <<svars, ssvars, cvvars>>

\* a control-domain cycle without a host access
CsrCycle ==
    /\ CsrTick(FALSE, FALSE)
    /\ UNCHANGED <<mem_mask, mem_value>>

\* the host writes the mem_mask register (ahead of a commit)
CsrSetMask ==
    /\ Len(tmem) < MaxWrites
    /\ \E m \in Masks : mem_mask' = m
    /\ CsrTick(FALSE, FALSE)
    /\ UNCHANGED mem_value

\* the host writes the mem_value register (ahead of a commit)
CsrSetValue ==
    /\ Len(tmem) < MaxWrites
    /\ \E v \in Values : mem_value' = v
    /\ CsrTick(FALSE, FALSE)
    /\ UNCHANGED mem_mask

\* the host writes the mem_write CSR: commits (mem_mask, mem_value)
CsrMemWrite ==
    /\ Len(tmem) < MaxWrites
    /\ CsrTick(TRUE, FALSE)
    /\ UNCHANGED <<mem_mask, mem_value>>

\* the host writes the mem_flush CSR
CsrMemFlush ==
    /\ flushReq < MaxFlushes
    /\ CsrTick(FALSE, TRUE)
    /\ UNCHANGED <<mem_mask, mem_value>>

(***************************************************************************)
(* One cycle of the sample domain (sys) with the sample (valid, data) on   *)
(* the sink.                                                               *)
(***************************************************************************)
TrigTick(valid, data) ==
    LET pop == mem_source_valid /\ MemSourceReady(data)
        c   == IF pop THEN t_consume + 1 ELSE t_consume
    IN  /\ t_consume' = c
        /\ t_dout' = TMemAt(c)
        /\ t_produce_r' = <<Len(tmem), t_produce_r[1]>>
        /\ toggle_o' = <<toggle_i, toggle_o[1]>>
        /\ toggle_o_r' = toggle_o[2]
        /\ flush_count' = FlushCountNext
        /\ sinceFlush' = IF flush_o THEN 1
                         ELSE IF sinceFlush = 0 \/ sinceFlush > TrigDepth THEN sinceFlush
                         ELSE sinceFlush + 1
        /\ flushPulses' = IF flush_o THEN flushPulses + 1 ELSE flushPulses
        /\ tobs' = [valid |-> valid, data |-> data,
                    headValid |-> mem_source_valid,
                    mask |-> t_dout.mask, value |-> t_dout.value,
                    outValid |-> valid, outData |-> data,
                    outHit |-> SourceHit(data),
                    fc |-> flush_count, since |-> sinceFlush, pop |-> pop,
                    n |-> 1]
        /\ UNCHANGED <<mem_mask, mem_value, tmem, toggle_i, flushReq>>
        /\ UNCHANGED <<svars, ssvars, cvvars>>

TrigCycle == \E valid \in BOOLEAN, data \in Samples : TrigTick(valid, data)


(***************************************************************************)
(* FrontendSubSampler                                                      *)
(***************************************************************************)
\* done.eq(counter == value)
done == counter = ss_value

\* self.sink.connect(self.source, omit=set(["valid"])): ready flows upstream
ss_sink_ready(source_ready) == source_ready

\* self.source.valid.eq(self.sink.valid & done)
ss_source_valid(sink_valid) == sink_valid /\ done

\* If(self.source.ready, If(done, counter.eq(0)).Elif(self.sink.valid,
\*    counter.eq(counter + 1)))
CounterNextIgnoresReady(sink_valid, source_ready) ==
    IF done THEN 0
    ELSE IF sink_valid THEN (counter + 1) % 65536 ELSE counter
CounterNext(sink_valid, source_ready) ==
    IF source_ready
      THEN IF done THEN 0
           ELSE IF sink_valid THEN (counter + 1) % 65536 ELSE counter
      ELSE counter

NoSsObs == [valid |-> FALSE, ready |-> FALSE, data |-> 0, accepted |-> FALSE,
            forwarded |-> FALSE, outData |-> 0, before |-> 0, gap |-> 0]

SubSamplerReset(n) ==
    /\ ss_value = n
    /\ counter = 0
    /\ ss_gap = 0
    /\ ss_fwd = 0
    /\ ss_obs = NoSsObs

\* one cycle with (sink_valid, data) on the sink and source_ready downstream
SubSamplerTick(sink_valid, data, source_ready) ==
    LET accepted  == sink_valid /\ ss_sink_ready(source_ready)
        forwarded == ss_source_valid(sink_valid) /\ source_ready
    IN  /\ counter' = CounterNext(sink_valid, source_ready)
        /\ ss_gap' = IF forwarded THEN 0
                     ELSE IF accepted /\ ss_gap <= ss_value THEN ss_gap + 1
                     ELSE ss_gap
        /\ ss_fwd' = IF forwarded /\ ss_fwd < 2 THEN ss_fwd + 1 ELSE ss_fwd
        /\ ss_obs' = [valid |-> sink_valid, ready |-> source_ready, data |-> data,
                      accepted |-> accepted, forwarded |-> forwarded,
                      outData |-> data, before |-> counter, gap |-> ss_gap]
        /\ UNCHANGED ss_value
        /\ UNCHANGED <<svars, tvars, cvvars>>

SubSamplerCycle ==
    \E sink_valid \in BOOLEAN, data \in Samples, source_ready \in BOOLEAN :
        SubSamplerTick(sink_valid, data, source_ready)

(***************************************************************************)
(* Width converter: stream.StrideConverter(core_layout(dw, 1),             *)
(* core_layout(dw*cd_ratio, cd_ratio)).  For cd_ratio = 1 the converter is *)
(* a wire; otherwise it is an up-converter that loads the narrow samples   *)
(* into the slots of the wide word, slot 0 first.                          *)
(***************************************************************************)
\* the slot a narrow sample is loaded into
SlotReversed == cd_ratio - 1 - demux
Slot == demux

\* the last slot of the word is being loaded
demux_last == demux = cd_ratio - 1

\* sink.ready.eq(~strobe_all | source.ready)
cv_sink_ready(source_ready) == IF cd_ratio = 1 THEN source_ready
                               ELSE ~strobe_all \/ source_ready

\* the wide word on the source: data field i and hit bit i come from slot i
WideWord(slots) == [data |-> [i \in 0..(cd_ratio - 1) |-> slots[i].data],
                    hit  |-> [i \in 0..(cd_ratio - 1) |-> slots[i].hit]]

NoSlot == [data |-> 0, hit |-> 0]

ConverterReset(r) ==
    /\ cd_ratio = r
    /\ demux = 0
    /\ strobe_all = FALSE
    /\ cv_word = [i \in 0..(r - 1) |-> NoSlot]
    /\ cv_next = 0
    /\ cv_in = <<>>
    /\ cv_out = <<>>

\* one cycle with the narrow sample (sink_valid, smp) on the sink and
\* source_ready on the source
ConverterTick(sink_valid, smp, source_ready) ==
    LET load_part == sink_valid /\ cv_sink_ready(source_ready)
        deliver   == IF cd_ratio = 1 THEN sink_valid /\ source_ready
                                     ELSE strobe_all /\ source_ready
        word      == IF cd_ratio = 1 THEN WideWord([i \in {0} |-> smp])
                                     ELSE WideWord(cv_word)
    IN  /\ IF cd_ratio = 1
             THEN UNCHANGED <<demux, strobe_all, cv_word>>
             ELSE /\ demux' = IF load_part
                                THEN IF demux_last THEN 0 ELSE demux + 1
                                ELSE demux
                  /\ strobe_all' = IF load_part /\ demux_last THEN TRUE
                                   ELSE IF source_ready THEN FALSE
                                   ELSE strobe_all
                  /\ cv_word' = IF load_part
                                  THEN [cv_word EXCEPT ![Slot] = smp]
                                  ELSE cv_word
        /\ cv_next' = IF load_part THEN cv_next + 1 ELSE cv_next
        /\ cv_in' = IF load_part THEN Append(cv_in, smp) ELSE cv_in
        /\ cv_out' = IF deliver THEN Append(cv_out, word) ELSE cv_out
        /\ UNCHANGED cd_ratio
        /\ UNCHANGED <<svars, tvars, ssvars>>

ConverterCycle ==
    \E sink_valid \in BOOLEAN, h \in {0, 1}, source_ready \in BOOLEAN :
        /\ sink_valid => cv_next < MaxNarrow
        /\ ConverterTick(sink_valid, [data |-> cv_next, hit |-> h], source_ready)


(***************************************************************************)
(* AnalyzerStorage                                                         *)
(***************************************************************************)
\* largest value of the length / offset registers: CSRStorage(bits_for(depth))
CfgMax(d) == Pow2(bits_for(d)) - 1

\* mem.level of the buffered FIFO: inner level plus the output register
mem_level == flevel + B2N(readable)

\* mem.sink.ready: the inner FIFO is writable
mem_writable == flevel # cap

\* WAIT: mem.source.ready.eq(mem.level >= self.offset.storage)
WaitDrainNever == FALSE
WaitDrain == mem_level >= offset

\* RUN: If(~mem.sink.ready | (mem.level >= self.length.storage), ...)
RunStopLate == ~mem_writable \/ mem_level > length
RunStop == ~mem_writable \/ mem_level >= length

\* self.sink.ready in the current state
SinkReadyNoBackpressure == TRUE
SinkReady == IF fsm = "IDLE" THEN TRUE ELSE mem_writable

\* mem.sink.valid: the sink is connected to the FIFO in WAIT and RUN only
MemWeAlways == sink.valid
MemWeNotOnHit == fsm # "IDLE" /\ sink.valid /\ ~(fsm = "WAIT" /\ sink.hit # 0)
MemWe == fsm # "IDLE" /\ sink.valid

\* mem.source.ready in the current state, given the host's mem_ready access
MemReIgnoresData(ready_re, ready_r) ==
    CASE fsm = "IDLE" -> ready_re
      [] fsm = "WAIT" -> WaitDrain
      [] fsm = "RUN"  -> RunStop
MemRe(ready_re, ready_r) ==
    CASE fsm = "IDLE" -> ready_re /\ ready_r
      [] fsm = "WAIT" -> WaitDrain
      [] fsm = "RUN"  -> RunStop

\* mem.reset.eq(self.mem_flush.re): the FIFO's registers are reset in the
\* cycle of a buffer-flush command
MemResetNever(flush_re) == FALSE
MemResetIdleOnly(flush_re) == flush_re /\ fsm = "IDLE"
MemReset(flush_re) == flush_re

\* the FSM's next state
FsmNext(start_re) ==
    CASE fsm = "IDLE" -> IF start_re THEN "WAIT" ELSE "IDLE"
      [] fsm = "WAIT" -> IF sink.valid /\ sink.hit # 0 THEN "RUN" ELSE "WAIT"
      [] fsm = "RUN"  -> IF RunStop THEN "IDLE" ELSE "RUN"

\* status bits driven by fsm.act(...): [idle, wait, run]
StatusBitsStuck == [idle |-> 1, wait |-> B2N(fsm = "WAIT"), run |-> B2N(fsm = "RUN")]
StatusBits == [idle |-> B2N(fsm = "IDLE"),
               wait |-> B2N(fsm = "WAIT"),
               run  |-> B2N(fsm = "RUN")]

\* the sample the upstream presents after a cycle in which the current one
\* was acknowledged (or none was presented)
NoSample == [valid |-> FALSE, data |-> 0, hit |-> 0]
Offers(idx, offering) ==
    IF mode = "live"
      THEN IF offering THEN {[valid |-> TRUE, data |-> idx, hit |-> B2N(idx = total)]}
                       ELSE {NoSample}
    ELSE IF ~offering \/ idx >= total THEN {NoSample}
    ELSE IF mode = "e2e"
         THEN {NoSample, [valid |-> TRUE, data |-> idx, hit |-> B2N(idx = 7)]}
         ELSE {NoSample} \cup {[valid |-> TRUE, data |-> idx, hit |-> h] : h \in {0, 1}}

(***************************************************************************)
(* One clock cycle of AnalyzerStorage.  start_re, flush_re, ready_re and   *)
(* ready_r are the CSR strobes of the cycle (self.start.re,                *)
(* self.mem_flush.re, self.mem_ready.re, self.mem_ready.r); offering says  *)
(* whether the upstream may present a sample in the next cycle and log     *)
(* whether the host records the word it pops.                              *)
(***************************************************************************)
StorageTick(start_re, flush_re, ready_re, ready_r, offering, log) ==
    LET re       == MemRe(ready_re, ready_r)
        ack      == sink.valid /\ SinkReady
        do_write == MemWe /\ mem_writable
        do_read  == flevel # 0 /\ (~readable \/ re)
        pop      == readable /\ re
        idx      == IF ack THEN nextIdx + 1 ELSE nextIdx
        \* history: what became of the triggering sample of this capture
        trig     == IF fsm = "WAIT" /\ sink.valid /\ sink.hit # 0
                      THEN IF do_write THEN "stored"
                           ELSE IF ack THEN "dropped" ELSE "pending"
                    ELSE IF obs.trig = "pending" /\ ack
                      THEN IF do_write THEN "stored" ELSE "dropped"
                    ELSE IF fsm = "IDLE" /\ start_re THEN "none"
                    ELSE obs.trig
    IN  /\ fsm' = FsmNext(start_re)
        /\ storage' = IF do_write THEN [storage EXCEPT ![produce] = sink.data]
                                   ELSE storage
        /\ dout' = IF do_read THEN storage[consume] ELSE dout
        /\ IF MemReset(flush_re)
              THEN /\ produce' = 0
                   /\ consume' = 0
                   /\ flevel' = 0
                   /\ readable' = FALSE
                   /\ content' = <<>>
              ELSE /\ produce' = IF do_write THEN _inc(produce, cap) ELSE produce
                   /\ consume' = IF do_read THEN _inc(consume, cap) ELSE consume
                   /\ flevel' = flevel + B2N(do_write) - B2N(do_read)
                   /\ readable' = IF do_read THEN TRUE
                                  ELSE IF re THEN FALSE ELSE readable
                   /\ content' = LET kept == IF pop /\ content # <<>> THEN Tail(content) ELSE content
                                 IN  IF do_write THEN Append(kept, sink.data) ELSE kept
        /\ nextIdx' = IF mode = "live" /\ idx > total THEN total + 1 ELSE idx
        /\ sink' \in IF sink.valid /\ ~ack THEN {sink} ELSE Offers(idx, offering)
        /\ readout' = IF log /\ pop /\ fsm = "IDLE" THEN Append(readout, dout) ELSE readout
        /\ obs' = [state |-> fsm, status |-> StatusBits, level |-> mem_level,
                   valid |-> sink.valid, data |-> sink.data, hit |-> sink.hit,
                   ack |-> ack, push |-> do_write, pop |-> pop, popData |-> dout,
                   hostPop |-> (fsm = "IDLE" /\ ready_re /\ ready_r),
                   flush |-> flush_re, prevFlush |-> obs.flush,
                   before |-> content, trig |-> trig,
                   writable |-> mem_writable, mem_valid |-> readable]
        /\ UNCHANGED <<mode, cap, total>>
    /\ UNCHANGED <<tvars, ssvars, cvvars>>


NoObs == [state |-> "IDLE", status |-> [idle |-> 1, wait |-> 0, run |-> 0],
          level |-> 0, valid |-> FALSE, data |-> 0, hit |-> 0, ack |-> FALSE,
          push |-> FALSE, pop |-> FALSE, popData |-> 0, hostPop |-> FALSE,
          flush |-> FALSE, prevFlush |-> FALSE, before |-> <<>>,
          trig |-> "none", writable |-> TRUE,
          mem_valid |-> FALSE]

\* the state after construction: FSM(reset_state="IDLE"), registers at 0
StorageReset(c) ==
    /\ cap = c
    /\ fsm = "IDLE"
    /\ length = 0
    /\ offset = 0
    /\ storage = [a \in 0..(c - 1) |-> 0]
    /\ produce = 0
    /\ consume = 0
    /\ flevel = 0
    /\ readable = FALSE
    /\ dout = 0
    /\ nextIdx = 0
    /\ content = <<>>
    /\ obs = NoObs
    /\ readout = <<>>
    /\ steady = TRUE

Init ==
    /\ mode = "free"
    /\ pc = "free"
    /\ total = MaxSamples
    /\ \E c \in 1..MaxCap : StorageReset(c)
    /\ sink \in Offers(0, TRUE)
    /\ TriggerReset
    /\ SubSamplerReset(0)
    /\ ConverterReset(1)

(***************************************************************************)
(* Cycles of the free environment: one CSR access (or none) per cycle.     *)
(***************************************************************************)
\* a cycle without a host access
StorageCycle ==
    /\ mode = "free"
    /\ StorageTick(FALSE, FALSE, FALSE, FALSE, TRUE, FALSE)
    /\ UNCHANGED <<length, offset, pc, steady>>

\* the host writes the start CSR (self.start.re)
HostStart ==
    /\ mode = "free"
    /\ StorageTick(TRUE, FALSE, FALSE, FALSE, TRUE, FALSE)
    /\ UNCHANGED <<length, offset, pc, steady>>

\* the host writes the mem_flush CSR (self.mem_flush.re)
HostFlush ==
    /\ mode = "free"
    /\ StorageTick(FALSE, TRUE, FALSE, FALSE, TRUE, FALSE)
    /\ UNCHANGED <<length, offset, pc, steady>>

\* the host writes r to the mem_ready CSR (self.mem_ready.re, self.mem_ready.r)
HostPop ==
    /\ mode = "free"
    /\ \E r \in BOOLEAN : StorageTick(FALSE, FALSE, TRUE, r, TRUE, FALSE)
    /\ UNCHANGED <<length, offset, pc, steady>>

\* the host writes the length register (while idle, before start)
HostSetLength ==
    /\ mode = "free"
    /\ fsm = "IDLE"
    /\ \E v \in 0..CfgMax(cap) : length' = v
    /\ StorageTick(FALSE, FALSE, FALSE, FALSE, TRUE, FALSE)
    /\ UNCHANGED <<offset, pc, steady>>

\* the host writes the offset register (while idle, before start)
HostSetOffset ==
    /\ mode = "free"
    /\ fsm = "IDLE"
    /\ \E v \in 0..CfgMax(cap) : offset' = v
    /\ StorageTick(FALSE, FALSE, FALSE, FALSE, TRUE, FALSE)
    /\ UNCHANGED <<length, pc, steady>>

Next ==
    \/ StorageCycle
    \/ HostStart
    \/ HostFlush
    \/ HostPop
    \/ HostSetLength
    \/ HostSetOffset

Spec == Init /\ [][Next]_vars

(***************************************************************************)
(* The end-to-end scenario of the specification: depth=16, cd_ratio=1,     *)
(* offset=4, length=10, 20 samples of which only sample 7 carries a hit.   *)
(* The host programs offset and length, starts the capture, the upstream   *)
(* then presents the samples, and the host reads the buffer out once the   *)
(* controller is back in IDLE and the stream has ended.                    *)
(***************************************************************************)
E2E == [cap |-> 16, offset |-> 4, length |-> 10, total |-> 20]

InitE2E ==
    /\ mode = "e2e"
    /\ pc = "offset"
    /\ total = E2E.total
    /\ StorageReset(E2E.cap)
    /\ sink = NoSample
    /\ TriggerReset
    /\ SubSamplerReset(0)
    /\ ConverterReset(1)

E2ESetOffset ==
    /\ mode = "e2e" /\ pc = "offset"
    /\ offset' = E2E.offset
    /\ pc' = "length"
    /\ StorageTick(FALSE, FALSE, FALSE, FALSE, FALSE, TRUE)
    /\ UNCHANGED <<length, steady>>

E2ESetLength ==
    /\ mode = "e2e" /\ pc = "length"
    /\ length' = E2E.length
    /\ pc' = "start"
    /\ StorageTick(FALSE, FALSE, FALSE, FALSE, FALSE, TRUE)
    /\ UNCHANGED <<offset, steady>>

E2EStart ==
    /\ mode = "e2e" /\ pc = "start"
    /\ pc' = "feed"
    /\ StorageTick(TRUE, FALSE, FALSE, FALSE, TRUE, TRUE)
    /\ steady' = sink'.valid
    /\ UNCHANGED <<length, offset>>

\* a capture cycle: no host access, the upstream presents the stream
E2EFeed ==
    /\ mode = "e2e" /\ pc = "feed"
    /\ nextIdx < total
    /\ StorageTick(FALSE, FALSE, FALSE, FALSE, TRUE, TRUE)
    /\ steady' = (steady /\ (sink'.valid \/ nextIdx' = total))
    /\ UNCHANGED <<length, offset, pc>>

\* the stream has ended: the host waits for the controller to be idle
E2EWait ==
    /\ mode = "e2e" /\ pc = "feed"
    /\ nextIdx = total
    /\ pc' = IF fsm = "IDLE" THEN "read" ELSE "feed"
    /\ StorageTick(FALSE, FALSE, FALSE, FALSE, FALSE, TRUE)
    /\ UNCHANGED <<length, offset, steady>>

\* readout: the host reads mem_valid; when it is 1 it reads mem_data and
\* writes 1 to mem_ready, when it is 0 the readout is over
E2ERead ==
    /\ mode = "e2e" /\ pc = "read"
    /\ IF readable
          THEN /\ StorageTick(FALSE, FALSE, TRUE, TRUE, FALSE, TRUE)
               /\ pc' = "settle"
          ELSE /\ StorageTick(FALSE, FALSE, FALSE, FALSE, FALSE, TRUE)
               /\ pc' = IF flevel = 0 THEN "done" ELSE "read"
    /\ UNCHANGED <<length, offset, steady>>

\* the cycle between two host accesses
E2ESettle ==
    /\ mode = "e2e" /\ pc = "settle"
    /\ StorageTick(FALSE, FALSE, FALSE, FALSE, FALSE, TRUE)
    /\ pc' = "read"
    /\ UNCHANGED <<length, offset, steady>>

NextE2E ==
    \/ E2ESetOffset
    \/ E2ESetLength
    \/ E2EStart
    \/ E2EFeed
    \/ E2EWait
    \/ E2ERead
    \/ E2ESettle

SpecE2E == InitE2E /\ [][NextE2E]_vars

(***************************************************************************)
(* A capture under a continuous stream: the host programs offset and       *)
(* length and starts the capture; from then on the upstream presents a     *)
(* valid sample in every cycle, holding each one until it is acknowledged, *)
(* and exactly one sample of the stream carries a hit.  (The samples after *)
(* the hit sample all carry the same index.)                               *)
(***************************************************************************)
InitLive ==
    /\ mode = "live"
    /\ pc = "offset"
    /\ total \in 0..MaxHitAt
    /\ \E c \in 1..MaxLiveCap : StorageReset(c)
    /\ sink = NoSample
    /\ TriggerReset
    /\ SubSamplerReset(0)
    /\ ConverterReset(1)

LiveSetOffset ==
    /\ mode = "live" /\ pc = "offset"
    /\ \E v \in 0..CfgMax(cap) : offset' = v
    /\ pc' = "length"
    /\ StorageTick(FALSE, FALSE, FALSE, FALSE, FALSE, FALSE)
    /\ UNCHANGED <<length, steady>>

LiveSetLength ==
    /\ mode = "live" /\ pc = "length"
    /\ \E v \in 0..CfgMax(cap) : length' = v
    /\ pc' = "start"
    /\ StorageTick(FALSE, FALSE, FALSE, FALSE, FALSE, FALSE)
    /\ UNCHANGED <<offset, steady>>

LiveStart ==
    /\ mode = "live" /\ pc = "start"
    /\ pc' = "run"
    /\ StorageTick(TRUE, FALSE, FALSE, FALSE, TRUE, FALSE)
    /\ UNCHANGED <<length, offset, steady>>

\* a cycle of the capture: no host access, the upstream presents the stream
LiveCycle ==
    /\ mode = "live" /\ pc = "run"
    /\ StorageTick(FALSE, FALSE, FALSE, FALSE, TRUE, FALSE)
    /\ UNCHANGED <<length, offset, pc, steady>>

NextLive ==
    \/ LiveSetOffset
    \/ LiveSetLength
    \/ LiveStart
    \/ LiveCycle

\* the clock never stops
SpecLive == InitLive /\ [][NextLive]_vars /\ WF_vars(NextLive)

(***************************************************************************)
(* The trigger unit on its own: the host's accesses in the control domain  *)
(* interleaved with the cycles of the sample domain.                       *)
(***************************************************************************)
StorageOff ==
    /\ mode = "off"
    /\ pc = "off"
    /\ total = 0
    /\ StorageReset(1)
    /\ sink = NoSample

InitTrigger ==
    /\ StorageOff
    /\ TriggerReset
    /\ SubSamplerReset(0)
    /\ ConverterReset(1)

NextTrigger ==
    \/ CsrCycle
    \/ CsrSetMask
    \/ CsrSetValue
    \/ CsrMemWrite
    \/ CsrMemFlush
    \/ TrigCycle

SpecTrigger == InitTrigger /\ [][NextTrigger]_vars

(***************************************************************************)
(* The sub-sampler on its own, with a factor held constant.                *)
(***************************************************************************)
InitSubSampler ==
    /\ StorageOff
    /\ TriggerReset
    /\ \E n \in 0..MaxFactor : SubSamplerReset(n)
    /\ ConverterReset(1)

NextSubSampler == SubSamplerCycle

SpecSubSampler == InitSubSampler /\ [][NextSubSampler]_vars

(***************************************************************************)
(* The width converter on its own.                                         *)
(***************************************************************************)
InitConverter ==
    /\ StorageOff
    /\ TriggerReset
    /\ SubSamplerReset(0)
    /\ \E r \in 1..MaxRatio : ConverterReset(r)

NextConverter == ConverterCycle

SpecConverter == InitConverter /\ [][NextConverter]_vars

(***************************************************************************)
(* Claims                                                                  *)
(***************************************************************************)
\* the last n elements of a sequence (all of it when it is shorter)
LastN(q, n) == IF Len(q) <= n THEN q ELSE SubSeq(q, Len(q) - n + 1, Len(q))

\* C1: in the end-to-end scenario (offset=4, length=10, 20 samples offered
\* one per cycle, only sample 7 with a hit) the host reads out exactly
\* samples 3,4,...,12, in that order.
C1_ReadoutIsWindow ==
    (mode = "e2e" /\ pc = "done" /\ steady)
        => readout = <<3, 4, 5, 6, 7, 8, 9, 10, 11, 12>>

\* C2: right after the WAIT -> RUN transition the buffer holds exactly the
\* last `offset` pre-trigger samples followed by the triggering sample,
\* provided at least `offset` samples were buffered before the trigger.
\* (Stated for the case in which exactly `offset` samples were buffered when
\* the triggering sample arrived and that sample was accepted.)
C2_PreTriggerWindow ==
    (mode = "free" /\ obs.state = "WAIT" /\ fsm = "RUN" /\ ~obs.flush
        /\ obs.ack /\ Len(obs.before) = offset)
        => content = Append(LastN(obs.before, offset), obs.data)

C7_AtMostCapacity == mode = "free" => mem_level <= cap

\* C7 (amended): the FIFO's memory never holds more than depth/cd_ratio
\* entries and the buffer as a whole (memory plus the output register of the
\* buffered FIFO) never more than depth/cd_ratio + 1; a sample offered in
\* WAIT or RUN while the memory is full is not acknowledged, and a sample
\* acknowledged in WAIT or RUN is written.
C7_CapacityAndBackpressure ==
    mode = "free" =>
        /\ flevel <= cap
        /\ mem_level <= cap + 1
        /\ Len(content) = mem_level
        /\ (obs.state # "IDLE" /\ obs.valid /\ ~obs.writable) => ~obs.ack
        /\ (obs.state # "IDLE" /\ obs.ack) => obs.push

\* C7 witness: a sample offered in WAIT or RUN to a full buffer and refused
C7_Witness ==
    /\ mode = "free" /\ obs.state # "IDLE" /\ obs.valid /\ ~obs.writable
    /\ ~obs.ack /\ ~obs.push /\ obs.level = cap + 1

\* C8: exactly one of the status bits idle, wait, run is 1 and it is the one
\* of the current FSM state.
C8_StatusExclusive ==
    mode = "free" =>
        /\ fsm \in {"IDLE", "WAIT", "RUN"}
        /\ StatusBits.idle + StatusBits.wait + StatusBits.run = 1
        /\ StatusBits.idle = 1 <=> fsm = "IDLE"
        /\ StatusBits.wait = 1 <=> fsm = "WAIT"
        /\ StatusBits.run = 1 <=> fsm = "RUN"
        /\ obs.status.idle + obs.status.wait + obs.status.run = 1
        /\ obs.status.idle = 1 <=> obs.state = "IDLE"

\* C8 witness: the controller has left IDLE and the run bit alone is set
C8_Witness ==
    /\ mode = "free" /\ fsm = "RUN" /\ obs.state = "WAIT"
    /\ StatusBits = [idle |-> 0, wait |-> 0, run |-> 1]
    /\ obs.status = [idle |-> 0, wait |-> 1, run |-> 0]

\* the entries the FIFO holds, oldest first: output register, then memory
FifoSeq ==
    (IF readable THEN <<dout>> ELSE <<>>)
        \o [i \in 1..flevel |-> storage[(consume + i - 1) % cap]]

\* C9: the buffer reads out what was pushed, in order: the FIFO's registers
\* and memory hold exactly the samples pushed and not yet popped, oldest
\* first, and a host pop request in IDLE hands over the oldest entry and
\* removes exactly that entry.
C9_RoundTrip ==
    mode = "free" =>
        /\ FifoSeq = content
        /\ (obs.hostPop /\ obs.mem_valid /\ ~obs.flush) =>
              /\ obs.before # <<>>
              /\ obs.popData = Head(obs.before)
              /\ content = Tail(obs.before)
        /\ (obs.state = "IDLE" /\ ~obs.hostPop /\ ~obs.flush) =>
              content = obs.before

\* C9 witness: with two samples buffered, the host pops the oldest in IDLE
C9_Witness ==
    /\ mode = "free" /\ obs.hostPop /\ obs.mem_valid /\ ~obs.flush
    /\ Len(obs.before) = 2
    /\ obs.popData = Head(obs.before)
    /\ content = Tail(obs.before)
    /\ obs.before[1] # obs.before[2]

C5_FlushWindow ==
    tobs.n = 1 =>
        /\ tobs.since \in 1..TrigDepth => (tobs.fc # 0 /\ tobs.outHit = 1)
        /\ tobs.since \notin 1..TrigDepth => tobs.fc = 0

\* C6: with the factor N held constant the sub-sampler forwards exactly 1 of
\* every N+1 consecutive accepted inputs: never more than N accepted inputs
\* go by without one being forwarded, and a forwarded input is preceded by
\* exactly N accepted inputs since the previous forwarded one.
C6_OneOfEvery ==
    /\ ss_gap <= ss_value
    /\ (ss_obs.forwarded /\ ss_fwd >= 2) => ss_obs.gap = ss_value
    /\ ss_obs.forwarded => (ss_obs.accepted /\ ss_obs.outData = ss_obs.data)

\* the narrow samples of a sequence of wide words, in order
RECURSIVE Flatten(_)
Flatten(ws) ==
    IF ws = <<>> THEN <<>>
    ELSE [i \in 1..cd_ratio |-> [data |-> ws[1].data[i - 1], hit |-> ws[1].hit[i - 1]]]
         \o Flatten(Tail(ws))

\* the narrow samples loaded into the word under construction
PendingNarrow ==
    IF cd_ratio = 1 THEN <<>>
    ELSE [i \in 1..(IF strobe_all THEN cd_ratio ELSE demux) |-> cv_word[i - 1]]

\* C10: each wide word consists of exactly cd_ratio consecutive narrow
\* samples in arrival order, hit bit i being the hit flag of the i-th of
\* them, and no narrow sample is dropped or appears twice: the delivered
\* words, unpacked, followed by the samples of the word under construction,
\* are exactly the accepted narrow samples.
C10_Packing ==
    mode = "off" =>
        /\ \A k \in 1..Len(cv_out) :
              /\ DOMAIN cv_out[k].data = 0..(cd_ratio - 1)
              /\ DOMAIN cv_out[k].hit = 0..(cd_ratio - 1)
        /\ Flatten(cv_out) \o PendingNarrow = cv_in
        /\ \A i \in 1..Len(cv_in) : cv_in[i].data = i - 1

\* C10 witness: two words of three samples each delivered, with differing
\* hit flags within a word
C10_Witness ==
    /\ cd_ratio = 3 /\ Len(cv_out) = 2
    /\ cv_out[2].data = [i \in 0..2 |-> 3 + i]
    /\ cv_out[2].hit = [i \in 0..2 |-> IF i = 1 THEN 1 ELSE 0]
    /\ Len(cv_in) = 7

\* the flush synchroniser is at rest: no toggle is travelling through it
FlushSettled ==
    /\ toggle_o[1] = toggle_i
    /\ toggle_o[2] = toggle_o[1]
    /\ toggle_o_r = toggle_o[2]

\* C11: every mem_flush request issued in the control domain is delivered
\* to the sample domain as exactly one single-cycle pulse, for every
\* interleaving of the two domains' clock ticks: there are never more pulses
\* than requests, and once the synchroniser is at rest there have been as
\* many pulses as requests.
C11_FlushExactlyOnce ==
    mode = "off" =>
        /\ flushPulses <= flushReq
        /\ FlushSettled => flushPulses = flushReq

\* the FIFO's registers are in their reset state
MemIsReset ==
    /\ produce = 0 /\ consume = 0 /\ flevel = 0 /\ ~readable
    /\ mem_level = 0 /\ content = <<>>

\* C12 (as stated): issuing the buffer-flush command twice in a row leaves
\* the controller and the ring buffer in the same state as issuing it once:
\* after the second flush the buffer is empty with mem_valid 0, as it was
\* after the first, and the capture state is the one the first flush left.
C12_FlushTwiceSameState ==
    (mode = "free" /\ obs.flush /\ obs.prevFlush) =>
        /\ MemIsReset
        /\ obs.level = 0 /\ ~obs.mem_valid
        /\ fsm = obs.state

\* C12 (amended): issuing the buffer-flush command twice in a row leaves
\* the ring buffer in the same state as issuing it once (registers reset,
\* buffer empty, mem_valid 0); the capture state after the second flush is
\* the one the first flush left unless a transition of the controller was
\* due in the cycle of the second flush (a sample with hit in WAIT, the stop
\* condition in RUN), which is taken as it would be without the flush.
C12_FlushTwiceSameBuffer ==
    mode = "free" =>
        /\ obs.flush => MemIsReset
        /\ (obs.flush /\ obs.prevFlush) =>
              /\ obs.level = 0 /\ ~obs.mem_valid /\ obs.before = <<>>
              /\ fsm # obs.state =>
                    \/ obs.state = "WAIT" /\ obs.valid /\ obs.hit # 0
                    \/ obs.state = "RUN" /\ obs.level >= length

\* C12 witness: a second flush in a row, issued in WAIT in a cycle in which
\* a sample is pushed: the buffer is empty again and the state is still WAIT
C12_Witness ==
    /\ mode = "free" /\ obs.flush /\ obs.prevFlush
    /\ obs.state = "WAIT" /\ obs.push /\ fsm = "WAIT" /\ MemIsReset

\* C13: in every reachable state in which the controller is in WAIT the
\* ring buffer holds at most `offset` entries, for every offset (0 included)
\* and for every arming cycle.
C13_WaitAtMostOffset ==
    (mode = "free" /\ fsm = "WAIT") => mem_level <= offset

\* C14: a pending (mask, value) update is popped from the update queue only
\* in a cycle where the current sample matches the queue-head condition or
\* where a countdown started by a flush request within the preceding `depth`
\* cycles is non-zero; if no flush was ever requested, no update is popped
\* on a non-matching sample.
C14_PopOnlyOnMatchOrFlush ==
    (tobs.n = 1 /\ tobs.pop) =>
        /\ \/ BitAnd(tobs.data, tobs.mask) = tobs.value
           \/ tobs.fc # 0 /\ tobs.since \in 1..TrigDepth
        /\ flushReq = 0 => BitAnd(tobs.data, tobs.mask) = tobs.value

\* C15: for every offset and length in 0..capacity, when in WAIT a valid
\* sample with non-zero hit flag is observed, the controller goes to RUN and
\* that sample is written into the ring buffer exactly once: it is written
\* in the cycle in which it is acknowledged, it is never acknowledged
\* without being written, and it is not left unacknowledged when the
\* controller is back in IDLE.
C15_TriggerStored ==
    (mode = "free" /\ offset <= cap /\ length <= cap) =>
        /\ (obs.state = "WAIT" /\ obs.valid /\ obs.hit # 0) =>
              /\ fsm = "RUN"
              /\ obs.trig \in {"stored", "pending"}
              /\ obs.trig = "stored" <=> (obs.ack /\ obs.push)
              /\ (obs.push /\ ~obs.flush) =>
                    (content # <<>> /\ content[Len(content)] = obs.data)
              /\ obs.trig = "pending" =>
                    (sink.valid /\ sink.data = obs.data /\ nextIdx = obs.data)
        /\ obs.trig # "dropped"
        /\ fsm = "IDLE" => obs.trig # "pending"
        /\ (obs.state = "RUN" /\ obs.ack /\ ~obs.flush) =>
              (obs.push /\ content # <<>> /\ content[Len(content)] = obs.data)

\* C15 witness: with pre-trigger samples buffered, the triggering sample
\* is acknowledged and written in WAIT and the controller is in RUN
C15_Witness ==
    /\ mode = "free" /\ offset <= cap /\ length <= cap /\ offset >= 1
    /\ obs.state = "WAIT" /\ obs.valid /\ obs.hit # 0 /\ fsm = "RUN"
    /\ obs.ack /\ obs.push /\ obs.trig = "stored" /\ ~obs.flush
    /\ Len(content) >= 2 /\ content[Len(content)] = obs.data

\* C15 witness of the late case: the triggering sample arrives in WAIT
\* while the FIFO's memory is full and is held for the first RUN cycle
C15_WitnessHeld ==
    /\ mode = "free" /\ offset <= cap /\ length <= cap
    /\ obs.state = "WAIT" /\ obs.valid /\ obs.hit # 0 /\ fsm = "RUN"
    /\ ~obs.ack /\ obs.trig = "pending" /\ mem_writable

\* C16 (as stated): after start, under a continuous stream that contains a
\* sample with non-zero hit flag, the controller eventually leaves WAIT for
\* RUN and eventually returns to IDLE, for every offset/length setting.
C16_CaptureLiveness ==
    /\ (mode = "live" /\ fsm = "WAIT") ~> (fsm = "RUN")
    /\ (mode = "live" /\ fsm = "RUN") ~> (fsm = "IDLE")

\* C16 (amended): the same for every length setting and every offset
\* setting within the capacity.
C16_CaptureLivenessWithinCapacity ==
    /\ (mode = "live" /\ fsm = "WAIT" /\ offset <= cap) ~> (fsm = "RUN")
    /\ (mode = "live" /\ fsm = "RUN") ~> (fsm = "IDLE")

\* C16 witness: a capture with pre-trigger samples dropped by the drain in
\* WAIT has triggered, run, and returned to IDLE
C16_Witness ==
    /\ mode = "live" /\ pc = "run" /\ fsm = "IDLE" /\ obs.state = "RUN"
    /\ obs.trig = "stored" /\ offset >= 1 /\ offset <= cap /\ length >= 2
    /\ total > offset + 1 /\ content # <<>> /\ content[1] > 0

\* C17: an entry is pushed into the ring buffer only in a cycle where the
\* controller state is WAIT or RUN; in a cycle where the state is IDLE no
\* incoming sample is written (it is acknowledged and discarded) and the
\* buffer occupancy does not increase, for every input.
C17_WritesOnlyInWaitRun ==
    mode = "free" =>
        /\ obs.push => obs.state \in {"WAIT", "RUN"}
        /\ obs.state = "IDLE" =>
              /\ ~obs.push
              /\ obs.valid => obs.ack
              /\ mem_level <= obs.level
              /\ Len(content) <= Len(obs.before)
              /\ (~obs.flush /\ ~obs.pop) => content = obs.before

\* C17 witness: a valid sample arrives in IDLE while the buffer holds an
\* entry and has room: it is acknowledged, not written, and the buffer's
\* content is unchanged
C17_Witness ==
    /\ mode = "free" /\ obs.state = "IDLE" /\ obs.valid /\ obs.ack
    /\ ~obs.push /\ ~obs.flush /\ ~obs.pop /\ obs.writable
    /\ obs.before # <<>> /\ content = obs.before /\ mem_level = obs.level

\* C18: a buffer-flush command issued in any state (IDLE, WAIT or RUN)
\* leaves the ring buffer empty on the next cycle, even when a sample is
\* pushed in the same cycle, and does not itself change the capture state:
\* the next state is the one the FSM takes on the cycle's other inputs.
C18_FlushIndependentOfState ==
    (mode = "free" /\ obs.flush) =>
        /\ MemIsReset
        /\ obs.state = "IDLE" => fsm = "IDLE"
        /\ obs.state = "WAIT" =>
              fsm = IF obs.valid /\ obs.hit # 0 THEN "RUN" ELSE "WAIT"
        /\ obs.state = "RUN" =>
              fsm = IF ~obs.writable \/ obs.level >= length THEN "IDLE" ELSE "RUN"

\* C18 witness: a flush in RUN, with entries in the buffer and a sample
\* pushed in the same cycle: the buffer is empty and the state is still RUN
C18_Witness ==
    /\ mode = "free" /\ obs.flush /\ obs.state = "RUN" /\ obs.push
    /\ obs.before # <<>> /\ MemIsReset /\ fsm = "RUN"

\* C19: in every cycle where the sub-sampler's downstream is not ready its
\* counter is left unchanged and no input is accepted (the input's ready is
\* low) or forwarded, whatever the input valid and the factor are.
C19_SubSamplerStall ==
    (mode = "off" /\ ~ss_obs.ready) =>
        /\ counter = ss_obs.before
        /\ ~ss_obs.accepted
        /\ ~ss_obs.forwarded
        /\ ss_gap = ss_obs.gap

\* C19 witness: a valid input offered mid-count while the downstream is not
\* ready: the counter keeps its value and the input is not accepted
C19_Witness ==
    /\ mode = "off" /\ ss_obs.valid /\ ~ss_obs.ready /\ ~ss_obs.accepted
    /\ ss_value >= 2 /\ ss_obs.before = 1 /\ counter = 1

\* C19 witness of the other case: the count is complete (done) and the
\* downstream is not ready: the counter is not reset
C19_WitnessDone ==
    /\ mode = "off" /\ ss_obs.valid /\ ~ss_obs.ready /\ ~ss_obs.forwarded
    /\ ss_value >= 1 /\ ss_obs.before = ss_value /\ counter = ss_value

\* C20: in every cycle the hit flag on the trigger unit's output is 1
\* exactly when the update queue presents no pending (mask, value) entry on
\* its read side, and 0 whenever an entry is pending, independent of whether
\* the current sample matches that entry.
C20_HitTracksQueueEmpty ==
    (mode = "off" /\ tobs.n = 1) =>
        /\ tobs.outHit \in {0, 1}
        /\ ~tobs.headValid => tobs.outHit = 1
        /\ tobs.headValid => tobs.outHit = 0
        /\ (tobs.headValid /\ BitAnd(tobs.data, tobs.mask) = tobs.value)
              => tobs.outHit = 0
        /\ (tobs.headValid /\ BitAnd(tobs.data, tobs.mask) # tobs.value)
              => tobs.outHit = 0

\* C20 witness: an entry is pending and the sample does not match it: the
\* output hit flag is 0; the entry is then popped (forced by the countdown)
\* and the queue presents nothing
C20_Witness ==
    /\ tobs.n = 1 /\ tobs.headValid /\ tobs.valid
    /\ tobs.mask = 1 /\ tobs.value = 1 /\ tobs.data = 0
    /\ tobs.outHit = 0 /\ tobs.pop /\ ~mem_source_valid

=============================================================================
